---------------------------- MODULE Spec2Model ----------------------------
(***************************************************************************)
(* The three PDF page-extraction scripts of the repository                 *)
(*   A  extract_prd.py        one file, every page followed by a marker    *)
(*   B  extract_prd2.py       one file, every page preceded by a header    *)
(*   C  extract_prd_pages.py  one file per page                            *)
(* as one state machine.  A Python str is a sequence of code points, a     *)
(* file is a sequence of bytes, and the text stream's codec ('utf-8' or    *)
(* 'utf-8-sig') turns the one into the other.  A file is compared as the   *)
(* codec's output for the characters written: the line-end translation of  *)
(* the platform's text layer is left out.  A write either puts all its     *)
(* bytes at the end of the file or fails and leaves a beginning of them.   *)
(***************************************************************************)
EXTENDS Integers, Sequences, FiniteSets, TLC

MaxPages == 2
MaxRuns == 2

-----------------------------------------------------------------------------
(* Strings *)

Digits == "0123456789"
Upper == "ABCDEFGHIJKLMNOPQRSTUVWXYZ"
Lower == "abcdefghijklmnopqrstuvwxyz"

\* position of a one-character string in an alphabet
Index(alphabet, c) == CHOOSE n \in 1..Len(alphabet) : SubSeq(alphabet, n, n) = c

\* the code point of a one-character literal
Ord(c) ==
    CASE c = "\n" -> 10
      [] c = " " -> 32
      [] c = "-" -> 45
      [] c = "." -> 46
      [] c = ":" -> 58
      [] c = "=" -> 61
      [] c = "\\" -> 92
      [] c = "_" -> 95
      [] \E n \in 1..Len(Digits) : SubSeq(Digits, n, n) = c -> 47 + Index(Digits, c)
      [] \E n \in 1..Len(Upper) : SubSeq(Upper, n, n) = c -> 64 + Index(Upper, c)
      [] \E n \in 1..Len(Lower) : SubSeq(Lower, n, n) = c -> 96 + Index(Lower, c)

\* a string literal of the source as the sequence of its code points
CodePoints(s) == [n \in 1..Len(s) |-> Ord(SubSeq(s, n, n))]

RECURSIVE Str(_)
\* the decimal digits an f-string writes for a non-negative integer
Str(n) ==
    IF n < 10 THEN <<48 + n>>
    ELSE Str(n \div 10) \o <<48 + (n % 10)>>

\* codecs.utf_8_encode of one code point
EncodeChar(c) ==
    IF c < 128 THEN <<c>>
    ELSE IF c < 2048 THEN <<192 + (c \div 64), 128 + (c % 64)>>
    ELSE <<224 + (c \div 4096), 128 + ((c \div 64) % 64), 128 + (c % 64)>>

RECURSIVE Utf8(_)
Utf8(s) ==
    IF s = <<>> THEN <<>>
    ELSE EncodeChar(Head(s)) \o Utf8(Tail(s))

BOM == <<239, 187, 191>>

\* a slip: the byte-order mark waits for the first non-empty chunk
EncodeLazyBom(encoding, first, s) ==
    IF encoding = "utf-8-sig" /\ first /\ s # <<>> THEN BOM \o Utf8(s) ELSE Utf8(s)

\* what one write() of a text stream hands to the file: the utf-8-sig
\* encoder puts the byte-order mark before the first chunk it encodes,
\* whatever the chunk holds
Encode(encoding, first, s) ==
    IF encoding = "utf-8-sig" /\ first THEN BOM \o Utf8(s) ELSE Utf8(s)

-----------------------------------------------------------------------------
(* The literals of the three scripts *)

\* a slip: one line end on each side of the marker
PageBreakOneNewline == CodePoints("\n---PAGE BREAK---\n")

PageBreak == CodePoints("\n\n---PAGE BREAK---\n\n")

\* the two literal parts of f'\n=== PAGE {i+1} ===\n'
HeaderOpen == CodePoints("\n=== PAGE ")
HeaderClose == CodePoints(" ===\n")

\* a slip: the header shows the 0-based index
PageHeaderZeroBased(k) == HeaderOpen \o Str(k - 1) \o HeaderClose

PageHeader(k) == HeaderOpen \o Str(k) \o HeaderClose

PathA == CodePoints("c:\\Users\\Bill\\Desktop\\Vexium Verse\\Vex\\prd_full.txt")

output_path == CodePoints("c:\\Users\\Bill\\Desktop\\Vexium Verse\\vexium-verse\\prd_extracted.txt")

outdir == CodePoints("c:\\Users\\Bill\\Desktop\\Vexium Verse\\vexium-verse")

Sep == CodePoints("\\")

\* os.path.join on the platform of the hard-coded paths
PathJoin(dir, name) == dir \o Sep \o name

\* the two literal parts of f'prd_page_{i+1}.md'
PageNameOpen == CodePoints("prd_page_")
PageNameClose == CodePoints(".md")

PagePath(k) == PathJoin(outdir, PageNameOpen \o Str(k) \o PageNameClose)

EncodingOf(v) == IF v = "C" THEN "utf-8-sig" ELSE "utf-8"


-----------------------------------------------------------------------------
(* The environment: documents and the destination before the run *)

Variants == {"A", "B", "C"}

\* the texts page.extract_text() can return: no text, plain text, text
\* with a non-ASCII character and a line end, and texts that look like the
\* scripts' own marker and header
PageTexts ==
    { <<>>,
      CodePoints("Hi"),
      <<8212, 10>>,
      CodePoints("---PAGE BREAK---"),
      CodePoints("=== PAGE 1 ===") }

Documents == UNION { [1..n -> PageTexts] : n \in 0..MaxPages }

\* the files that can exist before a run of variant v: the files such a run
\* writes for a document of up to MaxPages + 1 pages and, for C, the file
\* variant B leaves in the same directory
Destinations(v) ==
    CASE v = "A" -> {PathA}
      [] v = "B" -> {output_path}
      [] v = "C" -> {PagePath(k) : k \in 1..(MaxPages + 1)} \cup {output_path}

\* what an earlier run can have left behind
Stale == Utf8(CodePoints("stale"))

VARIABLES
    variant,    \* which script runs
    pages,      \* reader.pages: the text of every page of the document
    fs,         \* the file system: path |-> bytes, for the files that exist
    before,     \* fs when the current run started
    run,        \* 1 for the first run, 2 for the run after it, ...
    pc,         \* the statement the script is at
    i,          \* the loop index (0-based); -1 before the first iteration
    text,       \* the text extracted for the current page
    first,      \* the open stream's encoder has not encoded anything yet
    out,        \* standard output of the current run
    err         \* the uncaught exception, "none" while there is none

vars == <<variant, pages, fs, before, run, pc, i, text, first, out, err>>

Init ==
    /\ variant \in Variants
    /\ pages \in Documents
    /\ \E existing \in SUBSET Destinations(variant) :
           fs = [p \in existing |-> Stale]
    /\ before = fs
    /\ run = 1
    /\ pc = "chdir"
    /\ i = -1
    /\ text = <<>>
    /\ first = FALSE
    /\ out = <<>>
    /\ err = "none"

\* a slip: every page goes to the file of page 1
PathFirstPage ==
    CASE variant = "A" -> PathA
      [] variant = "B" -> output_path
      [] variant = "C" -> PagePath(1)

\* the file the script has open, or opens next
Path ==
    CASE variant = "A" -> PathA
      [] variant = "B" -> output_path
      [] variant = "C" -> PagePath(i + 1)

\* a slip: mode 'a', which keeps what the file holds
TruncateAppend(files, path) ==
    [p \in (DOMAIN files) \cup {path} |-> IF p \in DOMAIN files THEN files[p] ELSE <<>>]

\* open(path, 'w'): creates the file or truncates it
Truncate(files, path) ==
    [p \in (DOMAIN files) \cup {path} |-> IF p = path THEN <<>> ELSE files[p]]

\* f.write: the bytes go to the end of the file
Append_(files, path, bytes) ==
    [files EXCEPT ![path] = @ \o bytes]

\* a slip: a failed extraction is swallowed and the loop goes on
RaiseAndContinue(e) ==
    /\ pc' = IF pc = "extract" THEN (IF variant = "B" THEN "header" ELSE "write")
             ELSE "failed"
    /\ err' = e
    /\ UNCHANGED <<variant, pages, fs, before, run, i, text, first, out>>

\* an exception nobody catches ends the process where it is raised
Raise(e) ==
    /\ pc' = "failed"
    /\ err' = e
    /\ UNCHANGED <<variant, pages, fs, before, run, i, text, first, out>>

-----------------------------------------------------------------------------
(* The statements *)

\* a slip: the output is opened before the document is
ChdirOpensOutput ==
    /\ pc = "chdir"
    /\ pc' = "reader"
    /\ fs' = Truncate(fs, IF variant = "C" THEN PagePath(1) ELSE Path)
    /\ UNCHANGED <<variant, pages, before, run, i, text, first, out, err>>

Chdir ==
    /\ pc = "chdir"
    /\ pc' = "reader"
    /\ UNCHANGED <<variant, pages, fs, before, run, i, text, first, out, err>>

ChdirFails ==
    /\ pc = "chdir"
    /\ Raise("FileNotFoundError")

\* reader = PyPDF2.PdfReader(...)
OpenDocument ==
    /\ pc = "reader"
    /\ pc' = IF variant = "C" THEN "for" ELSE "open"
    /\ UNCHANGED <<variant, pages, fs, before, run, i, text, first, out, err>>

OpenDocumentFails ==
    /\ pc = "reader"
    /\ Raise("DocumentOpenError")

\* with open(..., 'w', encoding=...) as f:
OpenOutput ==
    /\ pc = "open"
    /\ fs' = Truncate(fs, Path)
    /\ first' = TRUE
    /\ pc' = IF variant = "C" THEN "extract" ELSE "for"
    /\ UNCHANGED <<variant, pages, before, run, i, text, out, err>>

OpenOutputFails ==
    /\ pc = "open"
    /\ Raise("DestinationWriteError")

\* a slip: the loop steps over a page
ForNextSkip ==
    /\ pc = "for"
    /\ i + 1 < Len(pages)
    /\ i' = IF i + 2 < Len(pages) THEN i + 2 ELSE i + 1
    /\ pc' = IF variant = "C" THEN "open" ELSE "extract"
    /\ UNCHANGED <<variant, pages, fs, before, run, text, first, out, err>>

\* for page in reader.pages: the next page
ForNext ==
    /\ pc = "for"
    /\ i + 1 < Len(pages)
    /\ i' = i + 1
    /\ pc' = IF variant = "C" THEN "open" ELSE "extract"
    /\ UNCHANGED <<variant, pages, fs, before, run, text, first, out, err>>

\* a slip: the page files beyond the last page are removed at the end
ForEndCleanup ==
    /\ pc = "for"
    /\ i + 1 = Len(pages)
    /\ pc' = "print"
    /\ fs' = IF variant = "C"
             THEN [p \in (DOMAIN fs) \ {PagePath(k) : k \in (Len(pages) + 1)..(MaxPages + 1)}
                      |-> fs[p]]
             ELSE fs
    /\ UNCHANGED <<variant, pages, before, run, i, text, first, out, err>>

\* for page in reader.pages: no page is left
ForEnd ==
    /\ pc = "for"
    /\ i + 1 = Len(pages)
    /\ pc' = "print"
    /\ UNCHANGED <<variant, pages, fs, before, run, i, text, first, out, err>>

\* page.extract_text()
ExtractText ==
    /\ pc = "extract"
    /\ text' = pages[i + 1]
    /\ pc' = IF variant = "B" THEN "header" ELSE "write"
    /\ UNCHANGED <<variant, pages, fs, before, run, i, first, out, err>>

ExtractTextFails ==
    /\ pc = "extract"
    /\ Raise("PageExtractionError")

\* f.write(f'\n=== PAGE {i+1} ===\n')
WriteHeader ==
    /\ pc = "header"
    /\ fs' = Append_(fs, Path, Encode(EncodingOf(variant), first, PageHeader(i + 1)))
    /\ first' = FALSE
    /\ pc' = "write"
    /\ UNCHANGED <<variant, pages, before, run, i, text, out, err>>

\* a slip: the marker only between pages
PageOutputJoined ==
    IF variant = "A" /\ i + 1 < Len(pages) THEN text \o PageBreak ELSE text

\* the string the script writes for the current page
PageOutput == IF variant = "A" THEN text \o PageBreak ELSE text

\* f.write(text + '\n\n---PAGE BREAK---\n\n'), f.write(text),
\* f.write(page.extract_text())
WriteText ==
    /\ pc = "write"
    /\ fs' = Append_(fs, Path, Encode(EncodingOf(variant), first, PageOutput))
    /\ first' = FALSE
    /\ pc' = IF variant = "C" THEN "size" ELSE "for"
    /\ UNCHANGED <<variant, pages, before, run, i, text, out, err>>

\* a write that fails leaves some proper prefix of its bytes in the file
WriteFails ==
    /\ pc \in {"header", "write"}
    /\ LET data == Encode(EncodingOf(variant), first,
                          IF pc = "header" THEN PageHeader(i + 1) ELSE PageOutput)
       IN  \E n \in 0..(Len(data) - 1) :
               fs' = Append_(fs, Path, SubSeq(data, 1, n))
    /\ pc' = "failed"
    /\ err' = "DestinationWriteError"
    /\ UNCHANGED <<variant, pages, before, run, i, text, first, out>>

\* print(f'Page {i+1}: {os.path.getsize(path)} bytes')
PrintSize ==
    /\ pc = "size"
    /\ out' = Append(out, [msg |-> "Page", page |-> i + 1, bytes |-> Len(fs[Path])])
    /\ pc' = "for"
    /\ UNCHANGED <<variant, pages, fs, before, run, i, text, first, err>>

\* print('Done'), print(f'Extracted {len(reader.pages)} pages to {output_path}')
Completion ==
    IF variant = "B"
    THEN [msg |-> "Extracted", page |-> Len(pages), bytes |-> 0]
    ELSE [msg |-> "Done", page |-> 0, bytes |-> 0]

PrintDone ==
    /\ pc = "print"
    /\ out' = Append(out, Completion)
    /\ pc' = "done"
    /\ UNCHANGED <<variant, pages, fs, before, run, i, text, first, err>>

\* the same script is started again on the same document and destination
Rerun ==
    /\ pc = "done"
    /\ run < MaxRuns
    /\ run' = run + 1
    /\ before' = fs
    /\ pc' = "chdir"
    /\ i' = -1
    /\ text' = <<>>
    /\ first' = FALSE
    /\ out' = <<>>
    /\ UNCHANGED <<variant, pages, fs, err>>

Next ==
    \/ Chdir
    \/ ChdirFails
    \/ OpenDocument
    \/ OpenDocumentFails
    \/ OpenOutput
    \/ OpenOutputFails
    \/ ForNext
    \/ ForEnd
    \/ ExtractText
    \/ ExtractTextFails
    \/ WriteHeader
    \/ WriteText
    \/ WriteFails
    \/ PrintSize
    \/ PrintDone
    \/ Rerun

Spec == Init /\ [][Next]_vars

TypeOK ==
    /\ variant \in Variants
    /\ pc \in {"chdir", "reader", "open", "for", "extract", "header", "write",
               "size", "print", "done", "failed"}
    /\ i \in -1..(Len(pages) - 1)
    /\ run \in 1..MaxRuns

-----------------------------------------------------------------------------
(* What the claims speak of *)

N == Len(pages)

Succeeded == pc = "done"

\* the number of places of s where sub occurs
Count(sub, s) ==
    Cardinality({n \in 1..(Len(s) - Len(sub) + 1) : SubSeq(s, n, n + Len(sub) - 1) = sub})

RECURSIVE Sum(_, _)
\* f[1] + ... + f[n]
Sum(f, n) == IF n = 0 THEN 0 ELSE f[n] + Sum(f, n - 1)

MarkerBytes == Utf8(CodePoints("---PAGE BREAK---"))

MarkerBlock == CodePoints("\n\n---PAGE BREAK---\n\n")

RECURSIVE ExpectedA(_)
\* t_1 "\n\n---PAGE BREAK---\n\n" ... t_n "\n\n---PAGE BREAK---\n\n"
ExpectedA(ts) ==
    IF ts = <<>> THEN <<>>
    ELSE Head(ts) \o MarkerBlock \o ExpectedA(Tail(ts))

HeaderLineOpen == CodePoints("=== PAGE ")
HeaderLineClose == CodePoints(" ===")

HeaderLine(k) == HeaderLineOpen \o Str(k) \o HeaderLineClose

RECURSIVE ExpectedB(_, _)
\* "\n=== PAGE k ===\n" t_k ... for the pages ts, the first of them numbered k
ExpectedB(ts, k) ==
    IF ts = <<>> THEN <<>>
    ELSE <<10>> \o HeaderLine(k) \o <<10>> \o Head(ts) \o ExpectedB(Tail(ts), k + 1)

\* the ends of the lines of s, with 0 before the first line
Breaks(s) == {0, Len(s) + 1} \cup {n \in 1..Len(s) : s[n] = 10}

RECURSIVE HeaderLinesFrom(_, _)
\* the page numbers of the lines of s after position a that have the form
\* "=== PAGE k ===", in the order of the lines
HeaderLinesFrom(s, a) ==
    IF a > Len(s) THEN <<>>
    ELSE LET b == CHOOSE x \in Breaks(s) :
                      x > a /\ \A y \in Breaks(s) : y > a => x <= y
             line == SubSeq(s, a + 1, b - 1)
             ks == {k \in 1..(MaxPages + 2) : line = Utf8(HeaderLine(k))}
         IN  (IF ks = {} THEN <<>> ELSE <<CHOOSE k \in ks : TRUE>>)
                 \o HeaderLinesFrom(s, b)

HeaderLines(s) == HeaderLinesFrom(s, 0)

RECURSIVE Interleaved(_, _)
\* header k, then the header-shaped lines of the text of page k, for every page
Interleaved(ts, k) ==
    IF ts = <<>> THEN <<>>
    ELSE <<k>> \o HeaderLines(Utf8(Head(ts))) \o Interleaved(Tail(ts), k + 1)

PageFileOpen ==
    CodePoints("c:\\Users\\Bill\\Desktop\\Vexium Verse\\vexium-verse\\prd_page_")
PageFileClose == CodePoints(".md")

PageFileName(k) == PageFileOpen \o Str(k) \o PageFileClose

PageFiles(n) == {PageFileName(k) : k \in 1..n}

-----------------------------------------------------------------------------
(* C1 *)

\* C1 as stated: after a successful run of variant A on N >= 1 pages the
\* output file holds exactly N - 1 occurrences of ---PAGE BREAK---.
C1_MarkerCountNMinus1 ==
    (Succeeded /\ variant = "A" /\ N >= 1)
        => Count(MarkerBytes, fs[PathA]) = N - 1

\* C1 (amended): after a successful run of variant A on N >= 1 pages the
\* output file holds one ---PAGE BREAK--- for every page, the last page
\* included: N occurrences, and besides them only the occurrences that the
\* page texts themselves contain.
C1_MarkerCountN ==
    (Succeeded /\ variant = "A" /\ N >= 1)
        => Count(MarkerBytes, fs[PathA])
             = N + Sum([k \in 1..N |-> Count(MarkerBytes, Utf8(pages[k]))], N)

C1_Witness ==
    /\ Succeeded /\ variant = "A" /\ N = 2
    /\ \A k \in 1..N : Count(MarkerBytes, Utf8(pages[k])) = 0
    /\ Count(MarkerBytes, fs[PathA]) = 2

(* C2 *)

C4_OneFilePerPage ==
    (Succeeded /\ variant = "C")
        => /\ PageFiles(N) \subseteq DOMAIN fs
           /\ \A k \in 1..N : fs[PageFileName(k)] = BOM \o Utf8(pages[k])
           /\ DOMAIN fs = (DOMAIN before) \cup PageFiles(N)
           /\ \A p \in (DOMAIN fs) \ PageFiles(N) : fs[p] = before[p]

C4_Witness ==
    /\ Succeeded /\ variant = "C" /\ N = 2 /\ run = 1
    /\ pages[1] # pages[2]
    /\ PageFileName(1) \notin DOMAIN before
    /\ fs[PageFileName(1)] = BOM \o Utf8(pages[1])
    /\ fs[PageFileName(2)] = BOM \o Utf8(pages[2])

(* C5 *)

\* C5: when a successful run is followed by a successful run of the same
\* variant on the same document and destination, the destination after the
\* later run is byte for byte what it was after the earlier one.
C5_Idempotent ==
    (Succeeded /\ run > 1) => fs = before

C5_Witness ==
    /\ Succeeded /\ run = 2 /\ N = 2
    /\ pages[1] # <<>>
    /\ fs = before

(* C6 *)

Printed(m) == \E n \in 1..Len(out) : out[n] = m

\* C6: once an operation of the run has failed the run is over: it is in
\* its failed state, nothing is extracted, written or printed afterwards,
\* and the completion message has not been and will not be printed.
C6_FailStop ==
    /\ [](err # "none" => (pc = "failed" /\ ~Printed(Completion)))
    /\ [][err # "none" => UNCHANGED <<fs, out, i, text, pc, err>>]_vars

C6_Witness ==
    /\ err = "PageExtractionError"
    /\ pc = "failed"
    /\ i + 1 < N

(* C7 *)

\* the file of variant C for the page the loop is at
EmptyPageFileOfC(bytes) ==
    (variant = "C" /\ pc = "size" /\ pages[i + 1] = <<>>)
        => (Path \in DOMAIN fs /\ fs[Path] = bytes)

ZeroPagesAndEmptyText ==
    /\ (Succeeded /\ N = 0 /\ variant \in {"A", "B"})
           => (Path \in DOMAIN fs /\ fs[Path] = <<>>)
    /\ (Succeeded /\ N = 0 /\ variant = "C") => fs = before
    /\ (pc = "extract" /\ pages[i + 1] = <<>>) => ENABLED ExtractText
    /\ (pc = "header" /\ text = <<>>) => ENABLED WriteHeader
    /\ (pc = "write" /\ text = <<>>) => ENABLED WriteText
    /\ (pc = "size" /\ text = <<>>) => ENABLED PrintSize

\* C7 as stated: a 0-page document gives a zero-length file (A, B) or no file
\* (C); a page with empty text raises nothing, the run goes on, and variant
\* C's file for that page is empty.
C7_EmptyPageFileIsEmpty ==
    ZeroPagesAndEmptyText /\ EmptyPageFileOfC(<<>>)

\* C7 (amended): a 0-page document gives a zero-length file (A, B) or no
\* file (C); a page with empty text raises nothing, the run goes on, and
\* variant C's file for that page holds no text: it is the 3-byte byte-order
\* mark of utf-8-sig.
C7_EmptyPageFileIsBom ==
    ZeroPagesAndEmptyText /\ EmptyPageFileOfC(<<239, 187, 191>>)

C7_Witness ==
    /\ Succeeded /\ variant = "C" /\ N = 2
    /\ pages[1] = <<>> /\ pages[2] # <<>>
    /\ out[1] = [msg |-> "Page", page |-> 1, bytes |-> 3]
    /\ Len(out) = 3

(* C8 *)

IsPrefix(a, b) == Len(a) <= Len(b) /\ a = SubSeq(b, 1, Len(a))

\* the number of pages whose output the loop has finished
Finished == IF pc \in {"for", "size", "print", "done"} THEN i + 1 ELSE i

\* the single file of variant A or B holds the output of pages 1..k and,
\* where a write is under way or was cut short, a beginning of page k+1's
SingleFileHolds(k) ==
    LET whole == IF variant = "A"
                 THEN Utf8(ExpectedA(SubSeq(pages, 1, k)))
                 ELSE Utf8(ExpectedB(SubSeq(pages, 1, k), 1))
        more  == IF k >= N THEN <<>>
                 ELSE IF variant = "A"
                 THEN Utf8(ExpectedA(<<pages[k + 1]>>))
                 ELSE Utf8(ExpectedB(<<pages[k + 1]>>, k + 1))
    IN  /\ Path \in DOMAIN fs
        /\ IsPrefix(whole, fs[Path])
        /\ LET extra == SubSeq(fs[Path], Len(whole) + 1, Len(fs[Path]))
           IN  /\ IsPrefix(extra, more)
               /\ (pc = "failed" \/ (variant = "B" /\ pc = "write") \/ extra = <<>>)

Untouched(p) ==
    /\ p \in DOMAIN fs <=> p \in DOMAIN before
    /\ p \in DOMAIN fs => fs[p] = before[p]

\* the directory of variant C holds the files of pages 1..k, the file of
\* page k+1 is untouched, just opened or partly written, and every other
\* file is untouched
PageFilesHold(k) ==
    /\ \A j \in 1..k :
           PageFileName(j) \in DOMAIN fs /\ fs[PageFileName(j)] = BOM \o Utf8(pages[j])
    /\ \A p \in ((DOMAIN fs) \cup (DOMAIN before)) \ PageFiles(k + 1) : Untouched(p)
    /\ k < N =>
           \/ pc \in {"for", "open", "size", "failed"} /\ Untouched(PageFileName(k + 1))
           \/ /\ pc \in {"extract", "write", "failed"}
              /\ PageFileName(k + 1) \in DOMAIN fs
              /\ IsPrefix(fs[PageFileName(k + 1)], BOM \o Utf8(pages[k + 1]))
    /\ k >= N => \A p \in (DOMAIN fs) \cup (DOMAIN before) : p \notin PageFiles(k) => Untouched(p)

\* C8: in every state of a run the output on disk is that of pages 1..k, in
\* page order and each once, for the number k of pages the loop has
\* finished; page k+1 is extracted only then; k = N at the end of a
\* successful run, and after a failure on page k+1 the output of pages 1..k
\* is still there.
C8_PrefixInvariant ==
    IF i = -1 /\ pc \in {"chdir", "reader", "open", "failed"}
    THEN fs = before
    ELSE /\ Finished \in 0..N
         /\ pc \in {"print", "done"} => Finished = N
         /\ pc \in {"header", "write"} => (Finished = i /\ text = pages[i + 1])
         /\ variant \in {"A", "B"} => SingleFileHolds(Finished)
         /\ variant = "C" => PageFilesHold(Finished)

C8_Witness ==
    /\ pc = "failed" /\ err = "PageExtractionError"
    /\ variant = "C" /\ N = 2 /\ i = 1
    /\ fs[PageFileName(1)] = BOM \o Utf8(pages[1])
    /\ fs[PageFileName(2)] = <<>>
    /\ pages[1] # <<>>

(* C9 *)

\* C9: until the document has been opened no file of the destination is
\* created, truncated or changed, so a run that fails to open the document
\* leaves the destination as it was.
C9_OpenFailureLeavesDestination ==
    (pc \in {"chdir", "reader"} \/ err = "DocumentOpenError") => fs = before

C9_Witness ==
    /\ err = "DocumentOpenError" /\ pc = "failed"
    /\ run = 1 /\ DOMAIN before # {}
    /\ fs = before

(* C10 *)

\* C10: at every point of a run of variant C on N pages every file other
\* than prd_page_1.md .. prd_page_N.md is what it was before the run; a
\* prd_page_j.md with j > N stays, so the directory can hold more than N
\* page files afterwards.
C10_OtherFilesKept ==
    variant = "C" =>
        \A p \in ((DOMAIN fs) \cup (DOMAIN before)) \ PageFiles(N) : Untouched(p)

C10_Witness ==
    /\ Succeeded /\ variant = "C" /\ N = 1 /\ run = 1
    /\ PageFileName(2) \in DOMAIN fs
    /\ fs[PageFileName(2)] = Stale
    /\ fs[PageFileName(1)] # Stale

=============================================================================
